---- MODULE Spec2Model ----
(***************************************************************************)
(* Model of replay.py: the Trajectory object (a lap-wrapped time series    *)
(* with its nearest-sample lookup closest_point_time) and the ReplayNode   *)
(* whose timer callback loop publishes the sample closest to the clock.    *)
(*                                                                         *)
(* Numbers.  The program computes on floats.  Every time value of the      *)
(* model (recorded times, lap time, clock readings, query times) is an     *)
(* integer count of one common time quantum; on such a grid each float     *)
(* operation the lookup performs (%, -, power 2, sqrt) is exact, so the    *)
(* model computes what the code computes for these inputs.  Rounding of    *)
(* inputs off the grid is outside the model.                               *)
(*                                                                         *)
(* Indices are 0-based as in Python; sequences are 1-based, so sample i    *)
(* of a column c is c[i + 1].                                              *)
(***************************************************************************)
EXTENDS Integers, Sequences, FiniteSets, TLC

VARIABLES
    pc,          \* position of the program / of the object under test
    data,        \* columns returned by read_csv (dict of lists)
    traj,        \* the Trajectory object, NoTrajectory before construction
    rate,        \* args.rate handed to ReplayNode, NoRate before
    timer,       \* period handed to create_timer, NoTimer if never called
    start_time,  \* clock reading when the timer was created
    now,         \* the clock: what Time.now() returns
    query_time,  \* argument of the latest closest_point_time call
    res,         \* outcome of the latest closest_point_time call
    res2,        \* outcome of the follow-up call one lap later
    tick,        \* outcome of the latest timer callback
    err          \* exception that ended the program, "none" otherwise

vars == <<pc, data, traj, rate, timer, start_time, now, query_time, res, res2,
          tick, err>>

----------------------------------------------------------------------------
(* Bounds of the model. *)

MaxN == 3        \* longest column
MaxT == 3        \* largest recorded time value
MaxLap == 5      \* largest lap time handed to Trajectory directly
MaxQ == 9        \* query times range over -MaxQ .. MaxQ
MaxRate == 1     \* rates range over -MaxRate .. MaxRate
MaxStart == 2    \* clock reading at program start ranges over 0 .. MaxStart
MaxStep == 2     \* the clock advances 0 .. MaxStep between two callbacks
MaxClock == 8    \* the clock is not advanced beyond MaxClock

NoTrajectory == [none |-> "trajectory"]
NoRate == [none |-> "rate"]
Rate(r) == [hz |-> r]
NoTimer == [none |-> "timer"]
NoMsg == [none |-> "msg"]
NoData == [none |-> "data"]

Abs(n) == IF n < 0 THEN -n ELSE n

\* All lists of length 0 .. MaxN over a set of values.
Lists(S) == UNION {[1..n -> S] : n \in 0..MaxN}

\* A position column of n entries, distinct per sample.
Column(n, base) == [i \in 1..n |-> base + i]

----------------------------------------------------------------------------
(* Python and numpy arithmetic used by the lookup. *)

\* C fmod: remainder with the sign of the dividend (b # 0).
fmod(a, b) == IF a < 0 THEN -((-a) % Abs(b)) ELSE a % Abs(b)

\* A remainder that keeps fmod's result: truncating, not floored.
float_rem_truncating(a, b) == fmod(a, b)

\* Python's float %: fmod, moved by the divisor when the signs differ, so the
\* result has the sign of the divisor (floored modulo).
float_rem(a, b) ==
    LET mod == fmod(a, b)
    IN  IF mod # 0 /\ ((b < 0) # (mod < 0)) THEN mod + b ELSE mod

\* numpy.power(d, 2)
numpy_power2(d) == d * d

\* numpy.sqrt of a perfect square
numpy_sqrt(sq) == CHOOSE r \in 0..sq : r * r = sq

\* numpy.argmin: the index (0-based) of the first occurrence of the minimum,
\* found by a left-to-right scan that replaces the best only by a smaller one.
RECURSIVE argmin_scan(_, _, _)
argmin_scan(d, k, best) ==
    IF k > Len(d) THEN best - 1
    ELSE IF d[k] < d[best] THEN argmin_scan(d, k + 1, k)
    ELSE argmin_scan(d, k + 1, best)

\* A scan that also replaces the best by an equal one: last occurrence.
RECURSIVE argmin_last_scan(_, _, _)
argmin_last_scan(d, k, best) ==
    IF k > Len(d) THEN best - 1
    ELSE IF d[k] <= d[best] THEN argmin_last_scan(d, k + 1, k)
    ELSE argmin_last_scan(d, k + 1, best)

numpy_argmin_last(d) == argmin_last_scan(d, 2, 1)

numpy_argmin(d) == argmin_scan(d, 2, 1)

\* numpy integer remainder: a zero divisor yields 0 (with a warning).
numpy_int_rem(a, n) == IF n = 0 THEN 0 ELSE a % n

----------------------------------------------------------------------------
(* Trajectory object. *)

\* Trajectory.__init__ with the sentinel put first instead of last.
Trajectory_sentinel_first(x, y, t, v, lap_time) ==
    [x |-> x, y |-> y, t |-> t, t2 |-> <<lap_time>> \o t, v |-> v,
     lap_time |-> lap_time]

\* Trajectory.__init__ forgetting the appended lap time.
Trajectory_no_sentinel(x, y, t, v, lap_time) ==
    [x |-> x, y |-> y, t |-> t, t2 |-> t, v |-> v, lap_time |-> lap_time]

\* Trajectory.__init__: stores the columns as given, t2 = t + [lap_time].
\* Nothing is validated and nothing is raised.
Trajectory(x, y, t, v, lap_time) ==
    [x |-> x, y |-> y, t |-> t, t2 |-> Append(t, lap_time), v |-> v,
     lap_time |-> lap_time]

\* Trajectory.size
size(T) == Len(T.x)

\* What a closest_point_time call leaves behind: the exception it raised
\* ("none" if it returned), the phase and the argmin it computed, and the
\* pair (time_distance, i) it returned.
Result(e, phase, argmin, time_distance, i) ==
    [err |-> e, phase |-> phase, argmin |-> argmin,
     time_distance |-> time_distance, i |-> i]

NoResult == Result("nocall", 0, 0, 0, 0)

Raised(e) == Result(e, 0, 0, 0, 0)

\* The alias step without the remainder: the raw argmin is returned.
alias_none(argmin, n) == argmin

\* _min_i = numpy.argmin(_distances) % self.size
alias(argmin, n) == numpy_int_rem(argmin, n)

\* Trajectory.closest_point_time(time)
closest_point_time(T, time) ==
    IF Len(T.t) = 0 THEN Raised("IndexError")             \* self._t[0]
    ELSE IF T.lap_time = 0 THEN Raised("ZeroDivisionError")  \* time % 0.0
    ELSE
        LET phase == float_rem(time, T.lap_time)
            _distances == [k \in 1..Len(T.t2) |->
                              numpy_sqrt(numpy_power2(T.t2[k] - phase))]
            argmin == numpy_argmin(_distances)
            _min_i == alias(argmin, size(T))
        IN  IF _min_i + 1 > Len(_distances) THEN Raised("IndexError")
            ELSE Result("none", phase, argmin, _distances[_min_i + 1], _min_i)

----------------------------------------------------------------------------
(* The program: main, ReplayNode.__init__ and the timer callback loop. *)

\* --frame_id, default "map"
frame_id == "map"

\* What a timer callback leaves behind: whether one ran, how many publish
\* calls it made and the message it published.
Tick(emits, msg) == [ran |-> TRUE, emits |-> emits, msg |-> msg]

NoTick == [ran |-> FALSE, emits |-> 0, msg |-> NoMsg]

Odometry(stamp, x, y) == [frame_id |-> frame_id, stamp |-> stamp, x |-> x, y |-> y]

\* The csv files read_csv may return: columns of equal length, one row per
\* sample; the first t_s field holds the lap time.
CsvData ==
    {[x_m |-> Column(Len(t), 10), y_m |-> Column(Len(t), 20),
      v_mps |-> Column(Len(t), 30), t_s |-> t] : t \in Lists(-1..MaxT)}

Init ==
    /\ pc = "main"
    /\ data \in CsvData
    /\ traj = NoTrajectory
    /\ rate = NoRate
    /\ timer = NoTimer
    /\ start_time = 0
    /\ now \in 0..MaxStart
    /\ query_time = 0
    /\ res = NoResult
    /\ res2 = NoResult
    /\ tick = NoTick
    /\ err = "none"

\* __main__ steps 1 and 2: lap_time = data["t_s"][0]; data["t_s"][0] = .0;
\* t = Trajectory(...).  An empty file fails at data["t_s"][0].
main ==
    /\ pc = "main"
    /\ IF Len(data.t_s) = 0
       THEN /\ pc' = "failed"
            /\ err' = "IndexError"
            /\ UNCHANGED <<data, traj>>
       ELSE LET lap_time == data.t_s[1]
                t_s == [data.t_s EXCEPT ![1] = 0]
            IN  /\ data' = [data EXCEPT !.t_s = t_s]
                /\ traj' = Trajectory(data.x_m, data.y_m, t_s, data.v_mps, lap_time)
                /\ pc' = "constructed"
                /\ err' = err
    /\ UNCHANGED <<rate, timer, start_time, now, query_time, res, res2, tick>>

\* ReplayNode.__init__ (run by Execute): self.create_timer(1. / rate, self.loop).
\* 1. / 0 raises ZeroDivisionError before create_timer is called.  Nothing
\* else looks at the rate: a negative rate reaches create_timer with a
\* negative period, which the timer library either refuses or accepts.
ReplayNode_init(r) ==
    /\ pc = "constructed"
    /\ rate' = Rate(r)
    /\ IF r = 0
       THEN /\ pc' = "failed"
            /\ err' = "ZeroDivisionError"
            /\ UNCHANGED <<timer, start_time>>
       ELSE \E accepted \in BOOLEAN :
              IF r > 0 \/ accepted
              THEN /\ timer' = [period_num |-> 1, period_den |-> r]
                   /\ start_time' = now
                   /\ pc' = "running"
                   /\ err' = err
              ELSE /\ pc' = "failed"
                   /\ err' = "TimerError"
                   /\ UNCHANGED <<timer, start_time>>
    /\ UNCHANGED <<data, traj, now, query_time, res, res2, tick>>

\* Body of the callback at clock reading cur_time, looking up `time`:
\* one closest_point_time call, then one publish of the sample it names.
\* An exception leaves the callback before the publish.
publish_closest(cur_time, time) ==
    LET r == closest_point_time(traj, time)
        raised == IF r.err # "none" THEN r.err
                  ELSE IF r.i + 1 > Len(traj.x) \/ r.i + 1 > Len(traj.y)
                       THEN "IndexError"
                  ELSE "none"
    IN  /\ query_time' = time
        /\ res' = r
        /\ IF raised # "none"
           THEN /\ tick' = Tick(0, NoMsg)
                /\ pc' = "failed"
                /\ err' = raised
           ELSE /\ tick' = Tick(1, Odometry(cur_time, traj.x[r.i + 1], traj.y[r.i + 1]))
                /\ pc' = pc
                /\ err' = err

\* A callback that looks up the time elapsed since the timer was created.
loop_elapsed(d) ==
    /\ pc = "running"
    /\ now + d <= MaxClock
    /\ now' = now + d
    /\ publish_closest(now + d, now + d - start_time)
    /\ UNCHANGED <<data, traj, rate, timer, start_time, res2>>

\* ReplayNode.loop, fired by the timer after the clock advanced by d:
\* cur_time = self.Time.now(); closest_point_time(cur_time.nanoseconds / 1.e9)
loop(d) ==
    /\ pc = "running"
    /\ now + d <= MaxClock
    /\ now' = now + d
    /\ publish_closest(now + d, now + d)
    /\ UNCHANGED <<data, traj, rate, timer, start_time, res2>>

Next ==
    \/ main
    \/ \E r \in -MaxRate..MaxRate : ReplayNode_init(r)
    \/ \E d \in 0..MaxStep : loop(d)

Spec == Init /\ [][Next]_vars

----------------------------------------------------------------------------
(* The Trajectory object on its own: constructed from any columns, queried *)
(* at any time.                                                            *)

TrajectoryArgs ==
    {Trajectory(Column(Len(t), 10), Column(Len(t), 20), t, Column(Len(t), 30), lap)
        : t \in Lists(0..MaxT), lap \in -1..MaxLap}

InitObject ==
    /\ pc = "object"
    /\ data = NoData
    /\ traj \in TrajectoryArgs
    /\ rate = NoRate
    /\ timer = NoTimer
    /\ start_time = 0
    /\ now = 0
    /\ query_time = 0
    /\ res = NoResult
    /\ res2 = NoResult
    /\ tick = NoTick
    /\ err = "none"

\* A call traj.closest_point_time(time).
query(time) ==
    /\ pc = "object"
    /\ query_time' = time
    /\ res' = closest_point_time(traj, time)
    /\ res2' = NoResult
    /\ UNCHANGED <<pc, data, traj, rate, timer, start_time, now, tick, err>>

\* The follow-up call traj.closest_point_time(time + lap_time).
query_next_lap ==
    /\ pc = "object"
    /\ res # NoResult
    /\ res2 = NoResult
    /\ res2' = closest_point_time(traj, query_time + traj.lap_time)
    /\ UNCHANGED <<pc, data, traj, rate, timer, start_time, now, query_time,
                   res, tick, err>>

NextObject ==
    \/ \E time \in -MaxQ..MaxQ : query(time)
    \/ query_next_lap

ObjectSpec == InitObject /\ [][NextObject]_vars

----------------------------------------------------------------------------
(* The vocabulary of the specification, used to state the claims. *)

N(T) == Len(T.t)

\* A valid Trajectory: N >= 1, columns of equal length, lap_duration > 0,
\* times non-decreasing, times[0] == 0.
Valid(T) ==
    /\ T # NoTrajectory
    /\ N(T) >= 1
    /\ Len(T.x) = N(T) /\ Len(T.y) = N(T) /\ Len(T.v) = N(T)
    /\ T.lap_time > 0
    /\ \A k \in 1..(N(T) - 1) : T.t[k] <= T.t[k + 1]
    /\ T.t[1] = 0

StrictlyIncreasing(T) == \A k \in 1..(N(T) - 1) : T.t[k] < T.t[k + 1]

\* wrapped_times[k] for k in 0..N: times with the sentinel lap_duration.
wrapped_times(T, k) == IF k = N(T) THEN T.lap_time ELSE T.t[k + 1]

\* delta_k = |wrapped_times[k] - phase|, phase = query_time mod lap_duration
delta(T, k, q) == Abs(wrapped_times(T, k) - (q % T.lap_time))

\* k*: the smallest k in 0..N minimising delta_k
KStar(T, q) ==
    CHOOSE k \in 0..N(T) :
        /\ \A j \in 0..N(T) : delta(T, k, q) <= delta(T, j, q)
        /\ \A j \in 0..(k - 1) : delta(T, j, q) > delta(T, k, q)

Called(r) == r.err # "nocall"

----------------------------------------------------------------------------
(* Claims about closest_point_time, properties of ObjectSpec. *)

\* C1: for a valid Trajectory the returned time_delta is delta_{k*}, the
\* minimum over k in 0..N of |wrapped_times[k] - phase|, also when the
\* sentinel wins and the index is aliased to 0.
C1_DeltaIsMinimum ==
    (Valid(traj) /\ Called(res)) =>
        /\ res.err = "none"
        /\ res.time_distance = delta(traj, KStar(traj, query_time), query_time)

\* C2: for a valid Trajectory the returned index is k* mod N, k* the first
\* minimiser; when the phase is strictly closer to lap_duration than to
\* every recorded time the index is 0.
C2_IndexIsFirstMinimiser ==
    (Valid(traj) /\ Called(res)) =>
        LET phase == query_time % traj.lap_time
        IN  /\ res.err = "none"
            /\ res.i = KStar(traj, query_time) % N(traj)
            /\ (traj.lap_time - phase < phase - traj.t[N(traj)]) => res.i = 0

\* The sentinel strictly wins on a three-sample lap and index 0 is returned.
C2_Witness ==
    /\ Valid(traj) /\ Called(res)
    /\ N(traj) = 3
    /\ LET phase == query_time % traj.lap_time
       IN  traj.lap_time - phase < phase - traj.t[3]
    /\ res.argmin = 3
    /\ res.i = 0

C4_Periodic ==
    (Valid(traj) /\ Called(res2)) =>
        /\ res.err = "none" /\ res2.err = "none"
        /\ <<res2.time_distance, res2.i>> = <<res.time_distance, res.i>>

\* The pair of queries straddles time 0 and selects a sample other than 0.
C4_Witness ==
    /\ Valid(traj) /\ Called(res2)
    /\ query_time < 0 /\ query_time + traj.lap_time > 0
    /\ res2.i = res.i /\ res.i > 0

\* C10: with strictly increasing times, times[0] == 0 and
\* times[N-1] < lap_duration, the query at times[i] + m * lap_duration
\* returns (0, i) for every sample i and every integer m.
C10_RoundTrip ==
    (Valid(traj) /\ StrictlyIncreasing(traj) /\ traj.t[N(traj)] < traj.lap_time
        /\ Called(res)) =>
        \A i \in 0..(N(traj) - 1) : \A m \in -(MaxQ + MaxT)..(MaxQ + MaxT) :
            (query_time = traj.t[i + 1] + m * traj.lap_time) =>
                /\ res.err = "none"
                /\ <<res.time_distance, res.i>> = <<0, i>>

\* The last of three samples is selected at its recorded time, one lap early.
C10_Witness ==
    /\ Valid(traj) /\ StrictlyIncreasing(traj) /\ N(traj) = 3
    /\ traj.t[3] < traj.lap_time
    /\ query_time = traj.t[3] - traj.lap_time
    /\ res.err = "none"
    /\ <<res.time_distance, res.i>> = <<0, 2>>

----------------------------------------------------------------------------
(* Claims about the program, properties of Spec. *)

Constructed == traj # NoTrajectory

\* C5: no Trajectory object exists for columns that break N >= 1, equal
\* lengths, lap_duration > 0, non-decreasing times or times[0] == 0, and no
\* callback runs on such a Trajectory.
C5_OnlyValidTrajectories ==
    /\ Constructed => Valid(traj)
    /\ tick.ran => Valid(traj)

\* C6: with rate_hz <= 0 the node fails before any tick: no timer is
\* created and nothing is published (stated for a valid Trajectory).
C6_NoTimerForBadRate ==
    (Valid(traj) /\ rate # NoRate /\ rate.hz <= 0) =>
        /\ pc = "failed"
        /\ timer = NoTimer
        /\ ~tick.ran

\* C7 as stated: the time looked up by a tick is the time elapsed since the
\* loop started, clock.now() - start_time (stated for a valid Trajectory).
C7_QueriesElapsedTime ==
    (Valid(traj) /\ tick.ran) => query_time = now - start_time

\* C7 amended: the time looked up by a tick is the clock reading itself,
\* which is also the stamp of the message it publishes.
C7_QueriesClockReading ==
    tick.ran =>
        /\ query_time = now
        /\ tick.emits = 1 => tick.msg.stamp = query_time

\* A tick at the start instant, clock not 0, publishes a sample other than 0.
C7_Witness ==
    /\ tick.ran /\ tick.emits = 1
    /\ start_time > 0 /\ now = start_time
    /\ query_time = now
    /\ res.i > 0
    /\ tick.msg.x = traj.x[res.i + 1]

\* C8: every tick publishes exactly one message, which carries the position
\* of the index closest_sample returned for the tick's clock reading and
\* that reading as stamp, and the loop is still running after it.
C8_OneEmitPerTick ==
    tick.ran =>
        /\ tick.emits = 1
        /\ res = closest_point_time(traj, now)
        /\ tick.msg = Odometry(now, traj.x[res.i + 1], traj.y[res.i + 1])
        /\ pc = "running"

\* C9: once constructed the Trajectory never changes, its t2 is its t with
\* the one entry lap_time appended, and a tick leaves the node's fields alone.
C9_TrajectoryImmutable ==
    [][/\ Constructed => traj' = traj
       /\ Constructed' =>
            /\ traj'.t2 = traj'.t \o <<traj'.lap_time>>
            /\ Len(traj'.t2) = N(traj') + 1
       /\ pc = "running" => UNCHANGED <<data, traj, rate, timer, start_time>>]_vars

\* A tick more than a lap after the start, on a valid three-sample lap.
C9_Witness ==
    /\ Valid(traj) /\ N(traj) = 3
    /\ tick.ran /\ tick.emits = 1
    /\ now > start_time + traj.lap_time
    /\ traj.t2 = traj.t \o <<traj.lap_time>>

====
